---- MODULE Spec2Model ----
(***************************************************************************)
(* JSON-stat2 decoding (parseJsonStat2) and table rendering (formatTable)  *)
(* of ssb-mcp-server/src/json-stat-parser.ts, as the ssb_query handler of  *)
(* index.ts runs them on the reply of SSBClient.queryTable.                *)
(*                                                                         *)
(* Conventions.  JavaScript values that can be of several types are tagged  *)
(* records (Str, Num, Null, Undefined).  Indices of the source are 0-based; *)
(* TLA+ sequences are 1-based, so source position i is sequence position   *)
(* i + 1.  An object is a function from its keys; the entries of an object  *)
(* whose key order matters (category.index) are a sequence of <<key, value>>*)
(* pairs in Object.entries order.  SANY accepts ASCII only: the two pictograms*)
(* of the source are written "[chart]" and "[!]", the letter a-ring "aa",  *)
(* and the no-break space of the nb-NO number format " ".                  *)
(***************************************************************************)
EXTENDS Integers, Sequences, FiniteSets, TLC

VARIABLES data, maxRows, pc, dimensions, strides, decoded, parsed, lines, formatted,
          reply, calls, result

vars == <<data, maxRows, pc, dimensions, strides, decoded, parsed, lines, formatted,
          reply, calls, result>>

(***************************************************************************)
(* Bounds of the model.                                                    *)
(***************************************************************************)
MaxDims == 2
MaxSize == 2
MaxLimit == 4
MaxValues == 5

(***************************************************************************)
(* JavaScript values.                                                      *)
(***************************************************************************)
Str(s) == [t |-> "string", v |-> s]
Num(n) == [t |-> "number", v |-> n]
Null == [t |-> "null"]
Undefined == [t |-> "undefined"]

\* The two non-finite results of the index arithmetic, kept apart from the
\* naturals: 0 / 0 and x % 0 are NaN, x / 0 for x > 0 is Infinity.
NaN == 0 - 1
Infinity == 0 - 2

Min(a, b) == IF a < b THEN a ELSE b

\* Math.floor(remaining / stride)
FloorDiv(remaining, stride) ==
    IF remaining = NaN THEN NaN
    ELSE IF stride = 0 THEN (IF remaining = 0 THEN NaN ELSE Infinity)
    ELSE remaining \div stride

\* remaining % stride
Remainder(remaining, stride) ==
    IF remaining = NaN \/ stride = 0 THEN NaN ELSE remaining % stride

\* Template-literal conversion of a number: `${catIdx}`
NumberToString(n) ==
    IF n = NaN THEN "NaN" ELSE IF n = Infinity THEN "Infinity" ELSE ToString(n)

\* row[key] = value on an object: adds the key or overwrites its entry
SetKey(obj, key, value) ==
    [k \in (DOMAIN obj) \cup {key} |-> IF k = key THEN value ELSE obj[k]]

\* obj[key] read: undefined when the key is absent
GetKey(obj, key) == IF key \in DOMAIN obj THEN obj[key] ELSE Undefined

\* arr[i] read with a 0-based index: undefined outside the array
ArrayAt(arr, i) == IF i >= 0 /\ i < Len(arr) THEN arr[i + 1] ELSE Undefined

(***************************************************************************)
(* parseJsonStat2: category resolution.                                    *)
(***************************************************************************)
\* Array.isArray(catIndex)
IsArray(catIndex) == catIndex.kind = "array"

\* Position of the first entry holding the smallest position value
FirstMinimum(entries) ==
    CHOOSE i \in 1..Len(entries) :
        /\ \A j \in 1..Len(entries) : entries[i][2] <= entries[j][2]
        /\ \A j \in 1..(i - 1) : entries[j][2] > entries[i][2]

RemoveAt(seq, i) == SubSeq(seq, 1, i - 1) \o SubSeq(seq, i + 1, Len(seq))

\* A comparator with its operands exchanged: (a, b) => b - a
RECURSIVE SortDescending(_)
SortDescending(entries) ==
    IF entries = <<>> THEN <<>>
    ELSE LET i == CHOOSE k \in 1..Len(entries) :
                      \A j \in 1..Len(entries) : entries[k][2] >= entries[j][2]
         IN  <<entries[i]>> \o SortDescending(RemoveAt(entries, i))

\* Object.entries(catIndex).sort(([, a], [, b]) => a - b): ascending by
\* position; Array.prototype.sort is stable, so ties keep the entry order.
RECURSIVE SortByPosition(_)
SortByPosition(entries) ==
    IF entries = <<>> THEN <<>>
    ELSE LET i == FirstMinimum(entries)
         IN  <<entries[i]>> \o SortByPosition(RemoveAt(entries, i))

\* let orderedCodes: either the array itself or the codes of the sorted entries
OrderedCodes(catIndex) ==
    IF IsArray(catIndex) THEN catIndex.codes
    ELSE LET sorted == SortByPosition(catIndex.entries)
         IN  [k \in 1..Len(sorted) |-> sorted[k][1]]

\* catLabel[code] ?? code: only a missing label falls back to the code
CategoryLabelNullish(catLabel, code) ==
    IF code \in DOMAIN catLabel THEN catLabel[code] ELSE code

\* catLabel[code] || code: a missing or empty label falls back to the code
CategoryLabel(catLabel, code) ==
    IF code \in DOMAIN catLabel /\ catLabel[code] # "" THEN catLabel[code] ELSE code

\* One element pushed on `dimensions`
ResolveDimension(d, dimId) ==
    LET dim == d.dimension[dimId]
        orderedCodes == OrderedCodes(dim.category.index)
    IN  [id |-> dimId,
         label |-> dim.label,
         categories |-> [k \in 1..Len(orderedCodes) |->
                            [code |-> orderedCodes[k],
                             label |-> CategoryLabel(dim.category.label, orderedCodes[k])]]]

\* The `dimensions` array after the first loop
Dimensions(d) == [i \in 1..Len(d.id) |-> ResolveDimension(d, d.id[i])]

\* The trailing value column
ValueColumn == "Verdi"

\* columns = [...dimensions.map((d) => d.label), "Verdi"]
Columns(dims) ==
    [i \in 1..(Len(dims) + 1) |-> IF i <= Len(dims) THEN dims[i].label ELSE ValueColumn]

(***************************************************************************)
(* parseJsonStat2: strides and index decoding.                             *)
(***************************************************************************)
\* The stride taken from the dimension's own size: strides[i + 1] * sizes[i]
RECURSIVE StrideOwnSize(_, _)
StrideOwnSize(sizes, i) ==
    IF i = Len(sizes) THEN 1 ELSE StrideOwnSize(sizes, i + 1) * sizes[i]

\* strides[last] = 1; strides[i] = strides[i + 1] * sizes[i + 1]
RECURSIVE StrideAt(_, _)
StrideAt(sizes, i) ==
    IF i = Len(sizes) THEN 1 ELSE StrideAt(sizes, i + 1) * sizes[i + 1]

Strides(sizes) == [i \in 1..Len(sizes) |-> StrideAt(sizes, i)]

\* dim.categories[catIdx]?.label ?? `Unknown(${catIdx})`
CellLabel(categories, catIdx) ==
    LET cat == ArrayAt(categories, catIdx)
    IN  IF cat = Undefined
        THEN "Unknown(" \o NumberToString(catIdx) \o ")"
        ELSE cat.label

\* The inner loop over d from position d on: acc.row is the row so far,
\* acc.idx the category indices decoded so far.
RECURSIVE DecodeFrom(_, _, _, _, _)
DecodeFrom(dims, strd, d, remaining, acc) ==
    IF d > Len(dims) THEN acc
    ELSE LET catIdx == FloorDiv(remaining, strd[d])
             dim == dims[d]
         IN  DecodeFrom(dims, strd, d + 1, Remainder(remaining, strd[d]),
                        [row |-> SetKey(acc.row, dim.label,
                                        Str(CellLabel(dim.categories, catIdx))),
                         idx |-> Append(acc.idx, catIdx)])

\* The value written before the dimension cells instead of after them
BuildRowValueFirst(d, dims, strd, flatIdx) ==
    DecodeFrom(dims, strd, 1, flatIdx,
               [row |-> SetKey(<<>>, ValueColumn, ArrayAt(d.value, flatIdx)),
                idx |-> <<>>])

\* One iteration of the loop over flatIdx: the dimension cells, then the value
BuildRow(d, dims, strd, flatIdx) ==
    LET r == DecodeFrom(dims, strd, 1, flatIdx, [row |-> <<>>, idx |-> <<>>])
    IN  [row |-> SetKey(r.row, ValueColumn, ArrayAt(d.value, flatIdx)),
         idx |-> r.idx]

\* The total taken from the declared sizes instead of the value array
TotalRowsFromSizes(d) == IF Len(d.size) = 0 THEN 1 ELSE StrideAt(d.size, 1) * d.size[1]

\* const totalRows = data.value.length
TotalRows(d) == Len(d.value)

\* The loop bound without the Math.min
LoopLimitIgnoringTotal(totalRows, rowLimit) == rowLimit

\* const limit = Math.min(totalRows, maxRows)
LoopLimit(totalRows, rowLimit) == Min(totalRows, rowLimit)

\* The comparison off by one: totalRows >= maxRows
TruncatedAtOrAbove(totalRows, rowLimit) == totalRows >= rowLimit

\* truncated: totalRows > maxRows
Truncated(totalRows, rowLimit) == totalRows > rowLimit

\* The iterations of the loop over flatIdx, in order (none when limit <= 0)
Iterations(d, dims, strd, limit) ==
    [i \in 1..limit |-> BuildRow(d, dims, strd, i - 1)]

parseJsonStat2(d, rowLimit) ==
    LET totalRows == TotalRows(d)
        dims == Dimensions(d)
        strd == Strides(d.size)
        its == Iterations(d, dims, strd, LoopLimit(totalRows, rowLimit))
    IN  [label |-> d.label,
         source |-> d.source,
         updated |-> d.updated,
         columns |-> Columns(dims),
         rows |-> [i \in 1..Len(its) |-> its[i].row],
         totalRows |-> totalRows,
         truncated |-> Truncated(totalRows, rowLimit)]

(***************************************************************************)
(* formatTable.                                                            *)
(***************************************************************************)
\* Array.prototype.join
RECURSIVE Join(_, _)
Join(strs, sep) ==
    IF Len(strs) = 0 THEN ""
    ELSE IF Len(strs) = 1 THEN strs[1]
    ELSE strs[1] \o sep \o Join(Tail(strs), sep)

\* The three digits of a group after the first one
Pad3(n) == (IF n < 10 THEN "00" ELSE IF n < 100 THEN "0" ELSE "") \o ToString(n)

\* n.toLocaleString("nb-NO") of a non-negative integer: groups of three digits
RECURSIVE formatNumber(_)
formatNumber(n) ==
    IF n < 1000 THEN ToString(n)
    ELSE formatNumber(n \div 1000) \o " " \o Pad3(n % 1000)

\* String(val) applied to every value that is not a number
CellTextNullLiteral(val) ==
    IF val = Null THEN "null"
    ELSE IF val = Undefined THEN "undefined"
    ELSE IF val.t = "number" THEN formatNumber(val.v)
    ELSE val.v

\* The text of one cell: "-" for null and undefined, the formatted number,
\* or the string itself
CellText(val) ==
    IF val = Null \/ val = Undefined THEN "-"
    ELSE IF val.t = "number" THEN formatNumber(val.v)
    ELSE val.v

\* "| " + cells.join(" | ") + " |"
TableLine(cells) == "| " \o Join(cells, " | ") \o " |"

\* The four lines pushed first: title, source, updated, blank
HeaderBlock(p) ==
    <<"[chart] " \o p.label, "Kilde: " \o p.source, "Oppdatert: " \o p.updated, "">>

NoDataNotice == "Ingen data funnet."

HeaderLine(p) == TableLine(p.columns)

SeparatorLine(p) == TableLine([i \in 1..Len(p.columns) |-> "---"])

\* The line of one row: the cell of every header, read from the row by name
RowLine(p, row) ==
    TableLine([i \in 1..Len(p.columns) |-> CellText(GetKey(row, p.columns[i]))])

TruncationNotice(p) ==
    "[!] Viser " \o ToString(Len(p.rows)) \o " av " \o ToString(p.totalRows)
        \o " rader. Bruk filtre for aa begrense resultatet."

\* The `lines` array when formatTable returns
FormatLines(p) ==
    IF Len(p.rows) = 0
    THEN HeaderBlock(p) \o <<NoDataNotice>>
    ELSE HeaderBlock(p)
           \o <<HeaderLine(p), SeparatorLine(p)>>
           \o [i \in 1..Len(p.rows) |-> RowLine(p, p.rows[i])]
           \o (IF p.truncated THEN <<"", TruncationNotice(p)>> ELSE <<>>)

formatTable(p) == Join(FormatLines(p), "\n")

(***************************************************************************)
(* Inputs.                                                                 *)
(***************************************************************************)
DimId(i) == "d" \o ToString(i)

\* Category code k (0-based) and the label the bureau gives it
CodeAt(k) == "k" \o ToString(k)

LabelOf(code) == "Label " \o code

DimLabels == {"Aar", "Region", "Verdi"}

IndexKinds == {"array", "object"}

ValuePatterns == {"dense", "sparse"}

\* The value at flat position i (0-based): distinct numbers, on both sides
\* of the first thousands separator, with nulls in the sparse pattern
ValueAt(pattern, i) ==
    IF pattern = "sparse" /\ i % 3 = 1 THEN Null ELSE Num(617 * i + 5)

Values(pattern, n) == [i \in 1..n |-> ValueAt(pattern, i - 1)]

\* category.index of c codes in position order, as an array or as an object
\* whose keys are listed from the last position to the first
PlainIndex(kind, c) ==
    IF kind = "array"
    THEN [kind |-> "array", codes |-> [k \in 1..c |-> CodeAt(k - 1)]]
    ELSE [kind |-> "object", entries |-> [k \in 1..c |-> <<CodeAt(c - k), c - k>>]]

FullLabels(c) == [code \in {CodeAt(k) : k \in 0..(c - 1)} |-> LabelOf(code)]

\* A dimension with c categories, every one labelled
PlainDimension(label, kind, c) ==
    [label |-> label,
     category |-> [index |-> PlainIndex(kind, c), label |-> FullLabels(c)]]

\* A dataset response of the dimensions dims[1..n] with sizes size[1..n]
Response(size, dims, value) ==
    [id |-> [i \in 1..Len(size) |-> DimId(i)],
     size |-> size,
     dimension |-> [x \in {DimId(i) : i \in 1..Len(size)} |->
                       dims[CHOOSE i \in 1..Len(size) : DimId(i) = x]],
     value |-> value,
     label |-> "Befolkning",
     source |-> "Statistisk sentralbyraa",
     updated |-> "2024-02-21T07:00:00Z"]

RECURSIVE Product(_)
Product(size) == IF size = <<>> THEN 1 ELSE Head(size) * Product(Tail(size))

Limits == (0 - 1)..MaxLimit

NotYet == [t |-> "undefined"]

\* The handler has been called and has not awaited queryTable yet
Idle ==
    /\ pc = "start"
    /\ data = NotYet
    /\ dimensions = <<>>
    /\ strides = <<>>
    /\ decoded = <<>>
    /\ parsed = NotYet
    /\ lines = <<>>
    /\ formatted = ""
    /\ reply = NotYet
    /\ calls = <<>>
    /\ result = NotYet

Init ==
    /\ maxRows \in Limits
    /\ Idle

(***************************************************************************)
(* SSBClient.queryTable and the ssb_query handler.                         *)
(***************************************************************************)
HttpStatuses == {200, 301, 404, 503}

\* response.ok
IsOk(status) == status >= 200 /\ status <= 299

StatusText(status) ==
    IF status = 301 THEN "Moved Permanently"
    ELSE IF status = 404 THEN "Not Found"
    ELSE "Service Unavailable"

\* What the network gives the fetch of queryTable when no dataset response
\* comes back: a rejection, a response with a status that is not ok, or a
\* body that is not JSON
FailedReplies ==
    {[kind |-> "rejected", message |-> "fetch failed"]}
    \cup {[kind |-> "response", status |-> st, text |-> StatusText(st)] :
             st \in {x \in HttpStatuses : ~IsOk(x)}}
    \cup {[kind |-> "response", status |-> st, text |-> "<html>"] :
             st \in {x \in HttpStatuses : IsOk(x)}}

\* A reply with an ok status whose body is the dataset response r
JsonReply(r) ==
    [kind |-> "response", status |-> CHOOSE st \in HttpStatuses : IsOk(st), json |-> r]

\* queryTable: the dataset response it returns or the message of the error
\* it throws
queryTable(rep) ==
    IF rep.kind = "rejected" THEN [throws |-> rep.message]
    ELSE IF ~IsOk(rep.status)
    THEN [throws |-> "SSB API error (" \o ToString(rep.status) \o "): " \o rep.text]
    ELSE IF "json" \notin DOMAIN rep
    THEN [throws |-> "Unexpected token < in JSON at position 0"]
    ELSE [returns |-> rep.json]

\* An error result that lacks the isError flag
errorResultUnflagged(message) ==
    [content |-> <<[type |-> "text", text |-> "Feil: " \o message]>>]

errorResult(message) ==
    [content |-> <<[type |-> "text", text |-> "Feil: " \o message]>>,
     isError |-> TRUE]

\* The handler is about to await client.queryTable(...)
Calling == pc = "start"

\* await client.queryTable(...) with the reply rep: the handler goes on with
\* the response, or catches the error and returns errorResult(error)
Await(rep) ==
    /\ LET out == queryTable(rep)
       IN  /\ reply' = rep
           /\ calls' = Append(calls, "queryTable")
           /\ IF "throws" \in DOMAIN out
              THEN /\ result' = errorResult(out.throws)
                   /\ pc' = "done"
                   /\ data' = data
              ELSE /\ data' = out.returns
                   /\ pc' = "fetched"
                   /\ result' = result
    /\ UNCHANGED <<maxRows, dimensions, strides, decoded, parsed, lines, formatted>>

QueryFails == Calling /\ \E rep \in FailedReplies : Await(rep)

\* The reply is a response that satisfies the invariants of the dataset
\* response
QueryTable ==
    Calling /\
    \E n \in 0..MaxDims, kind \in IndexKinds, pattern \in ValuePatterns :
        \E size \in [1..n -> 0..MaxSize], label \in [1..n -> DimLabels] :
            Await(JsonReply(Response(size,
                                     [i \in 1..n |-> PlainDimension(label[i], kind, size[i])],
                                     Values(pattern, Product(size)))))

Parse ==
    /\ pc = "fetched"
    /\ LET dims == Dimensions(data)
           strd == Strides(data.size)
           its == Iterations(data, dims, strd, LoopLimit(TotalRows(data), maxRows))
       IN  /\ dimensions' = dims
           /\ strides' = strd
           /\ decoded' = [i \in 1..Len(its) |-> its[i].idx]
    /\ parsed' = parseJsonStat2(data, maxRows)
    /\ calls' = Append(calls, "parseJsonStat2")
    /\ pc' = "parsed"
    /\ UNCHANGED <<data, maxRows, lines, formatted, reply, result>>

Format ==
    /\ pc = "parsed"
    /\ lines' = FormatLines(parsed)
    /\ formatted' = formatTable(parsed)
    /\ calls' = Append(calls, "formatTable")
    /\ pc' = "formatted"
    /\ UNCHANGED <<data, maxRows, dimensions, strides, decoded, parsed, reply, result>>

\* return { content: [{ type: "text", text: formatted }] }
Return ==
    /\ pc = "formatted"
    /\ result' = [content |-> <<[type |-> "text", text |-> formatted]>>]
    /\ pc' = "done"
    /\ UNCHANGED <<data, maxRows, dimensions, strides, decoded, parsed, lines, formatted,
                   reply, calls>>

Next == QueryFails \/ QueryTable \/ Parse \/ Format \/ Return

Spec == Init /\ [][Next]_vars

(***************************************************************************)
(* Responses that break the invariants of the dataset response: the value  *)
(* array is not as long as the product of the sizes, a size is 0, or a     *)
(* category list is one shorter than the declared size.  The responses     *)
(* that satisfy the invariants are among them.                             *)
(***************************************************************************)
LabelSchemes == {"distinct", "shared"}

SchemeLabel(scheme, i) == IF scheme = "shared" THEN "Region" ELSE "Variabel " \o ToString(i)

Shorter(size, missing) == IF size > missing THEN size - missing ELSE 0

QueryTableMalformed ==
    Calling /\
    \E n \in 0..MaxDims, scheme \in LabelSchemes, len \in 0..MaxValues :
        \E size \in [1..n -> 0..MaxSize], missing \in [1..n -> 0..1] :
            Await(JsonReply(Response(size,
                                     [i \in 1..n |->
                                         PlainDimension(SchemeLabel(scheme, i), "array",
                                                        Shorter(size[i], missing[i]))],
                                     Values("sparse", len))))

NextMalformed == QueryFails \/ QueryTableMalformed \/ Parse \/ Format \/ Return

SpecMalformed == Init /\ [][NextMalformed]_vars

(***************************************************************************)
(* Responses whose last dimension has any category index (an array of      *)
(* codes in any order, or an object with any key order and any positions)  *)
(* and any category-label mapping; the dimensions before it are plain.     *)
(***************************************************************************)
\* maxRows: number = 50
DefaultMaxRows == 50

LeadingSize == 2

Injective(f) == \A a, b \in DOMAIN f : f[a] = f[b] => a = b

\* The orders of the codes 0 .. c-1
Orders(c) == {f \in [1..c -> 0..(c - 1)] : Injective(f)}

CategoryIndexes(c) ==
    {[kind |-> "array", codes |-> [k \in 1..c |-> CodeAt(order[k])]] : order \in Orders(c)}
    \cup
    {[kind |-> "object", entries |-> [k \in 1..c |-> <<CodeAt(order[k]), pos[k]>>]] :
        order \in Orders(c), pos \in [1..c -> 0..c]}

LabelStates == {"absent", "empty", "present"}

CategoryLabels(c) ==
    {[code \in {CodeAt(k) : k \in {j \in 0..(c - 1) : st[j] # "absent"}} |->
         IF st[CHOOSE j \in 0..(c - 1) : CodeAt(j) = code] = "empty" THEN "" ELSE LabelOf(code)] :
        st \in [0..(c - 1) -> LabelStates]}

\* The sizes of n dimensions of which the last has c categories
CategorySizes(n, c) == [i \in 1..n |-> IF i < n THEN LeadingSize ELSE c]

InitCategory ==
    /\ maxRows = DefaultMaxRows
    /\ Idle

QueryTableCategory ==
    Calling /\
    \E n \in 1..MaxDims, c \in 0..MaxSize :
        \E index \in CategoryIndexes(c), catLabel \in CategoryLabels(c) :
            Await(JsonReply(Response(CategorySizes(n, c),
                                     [i \in 1..n |->
                                         IF i < n
                                         THEN PlainDimension(SchemeLabel("distinct", i),
                                                             "array", LeadingSize)
                                         ELSE [label |-> SchemeLabel("distinct", i),
                                               category |-> [index |-> index,
                                                             label |-> catLabel]]],
                                     Values("sparse", Product(CategorySizes(n, c))))))

NextCategory == QueryFails \/ QueryTableCategory \/ Parse \/ Format \/ Return

SpecCategory == InitCategory /\ [][NextCategory]_vars

(***************************************************************************)
(* Properties.                                                             *)
(***************************************************************************)
Decoded == parsed # NotYet

Rendered == pc = "formatted"

Max(a, b) == IF a > b THEN a ELSE b

RowCount == Len(parsed.rows)

DimCount == Len(data.id)

\* C1: for every valid response and every limit, zero and negative limits
\* included, the number of rows returned is min(value.length, max(limit, 0)).
C1_RowCount ==
    Decoded => RowCount = Min(Len(data.value), Max(maxRows, 0))

\* A negative limit met a non-empty value array, and no row came back.
C1_Witness ==
    Decoded /\ maxRows < 0 /\ Len(data.value) > 1 /\ RowCount = 0

\* C2: row i holds value[i], a number or null, in the value column, for every
\* returned row and whatever the dimension labels are.
C2_ValueInOrder ==
    Decoded =>
        \A i \in 1..RowCount :
            /\ parsed.rows[i][ValueColumn] = data.value[i]
            /\ parsed.rows[i][ValueColumn].t \in {"number", "null"}

\* Several rows, a null among them, of a response with a dimension whose
\* label is the name of the value column.
C2_Witness ==
    /\ Decoded
    /\ RowCount >= 3
    /\ \E d \in 1..DimCount : dimensions[d].label = ValueColumn
    /\ \E i \in 1..RowCount : parsed.rows[i][ValueColumn] = Null
    /\ \E i \in 1..RowCount : parsed.rows[i][ValueColumn].t = "number"

\* The stride of dimension d as the claim defines it, unfolded: the product
\* of the sizes of the dimensions after d.
SizesAfter(d) == Product(SubSeq(data.size, d + 1, DimCount))

RECURSIVE Encode(_, _)
Encode(idx, d) ==
    IF d > Len(idx) THEN 0 ELSE idx[d] * SizesAfter(d) + Encode(idx, d + 1)

\* C3: for every valid response, the category indices decoded from flat
\* index i re-encode to i: the sum over the dimensions of categoryIndex[d] *
\* stride[d] is i, with stride[last] = 1 and stride[d] = stride[d+1] * size[d+1].
C3_RoundTrip ==
    Decoded =>
        /\ \A d \in 1..DimCount : strides[d] = SizesAfter(d)
        /\ \A i \in 1..RowCount :
              /\ Len(decoded[i]) = DimCount
              /\ Encode(decoded[i], 1) = i - 1

\* A row of two dimensions or more in which the first two indices are not 0.
C3_Witness ==
    /\ Decoded
    /\ DimCount >= 2
    /\ \E i \in 1..RowCount : decoded[i][1] > 0 /\ decoded[i][2] > 0

\* C4: in every returned row, the entry under the column name of dimension d
\* is the display label of the category of d decoded from the row's flat
\* index, for every dimension, and columns has one name per dimension plus
\* the value column.
C4_EveryDimensionCell ==
    Decoded =>
        /\ Len(parsed.columns) = DimCount + 1
        /\ parsed.columns[DimCount + 1] = ValueColumn
        /\ \A i \in 1..RowCount : \A d \in 1..DimCount :
              parsed.rows[i][parsed.columns[d]]
                  = Str(CellLabel(dimensions[d].categories, decoded[i][d]))

C6_TotalRows ==
    Decoded => parsed.totalRows = Len(data.value)

\* Fewer rows than values, and a value array that is not as long as the
\* product of the sizes.
C6_Witness ==
    /\ Decoded
    /\ RowCount < Len(data.value)
    /\ Len(data.value) # Product(data.size)
    /\ parsed.totalRows > 0

OutOfRange(i, d) == decoded[i][d] \notin 0..(Len(dimensions[d].categories) - 1)

\* C7: when a decoded category index is outside the resolved category list
\* of its dimension, the decode still returns min(value.length, max(limit, 0))
\* rows and the cell of that dimension holds a placeholder that encodes the
\* raw index.
C7_Placeholder ==
    Decoded =>
        /\ RowCount = Min(Len(data.value), Max(maxRows, 0))
        /\ \A i \in 1..RowCount : \A d \in 1..DimCount :
              OutOfRange(i, d) =>
                  parsed.rows[i][dimensions[d].label]
                      = Str("Unknown(" \o NumberToString(decoded[i][d]) \o ")")

\* The category index the response gives dimension d, and the codes the
\* decoder resolved for it
IndexOf(d) == data.dimension[data.id[d]].category.index

ResolvedCodes(d) ==
    [k \in 1..Len(dimensions[d].categories) |-> dimensions[d].categories[k].code]

\* The position the mapping gives a code
PositionOf(entries, code) ==
    entries[CHOOSE k \in 1..Len(entries) : entries[k][1] = code][2]

\* The positions of the mapping are 0 .. size-1, each once
IsPermutation(entries) ==
    \A p \in 0..(Len(entries) - 1) :
        Cardinality({k \in 1..Len(entries) : entries[k][2] = p}) = 1

\* C8: a category index given as a mapping resolves to its codes by ascending
\* position, whatever the order of its keys, so that category index k is the
\* code whose position is k (and row cells show that code's label); one given
\* as a sequence of codes is used unchanged.
C8_ResolvedOrder ==
    Decoded =>
        \A d \in 1..DimCount :
            IF IsArray(IndexOf(d))
            THEN ResolvedCodes(d) = IndexOf(d).codes
            ELSE LET entries == IndexOf(d).entries
                     codes == ResolvedCodes(d)
                 IN  /\ Len(codes) = Len(entries)
                     /\ {codes[k] : k \in 1..Len(codes)}
                            = {entries[k][1] : k \in 1..Len(entries)}
                     /\ \A k \in 1..(Len(codes) - 1) :
                            PositionOf(entries, codes[k]) <= PositionOf(entries, codes[k + 1])
                     /\ IsPermutation(entries) =>
                            /\ \A k \in 1..Len(codes) :
                                   PositionOf(entries, codes[k]) = k - 1
                            /\ \A i \in 1..RowCount :
                                   \E k \in 1..Len(entries) :
                                       /\ entries[k][2] = decoded[i][d]
                                       /\ parsed.rows[i][dimensions[d].label] =
                                              Str(CategoryLabel(
                                                  data.dimension[data.id[d]].category.label,
                                                  entries[k][1]))

\* A mapping whose keys are not listed in position order, decoded into rows
\* that show the category at position 0 and the one at position 1.
C8_Witness ==
    /\ Decoded
    /\ \E d \in 1..DimCount :
          /\ ~IsArray(IndexOf(d))
          /\ IsPermutation(IndexOf(d).entries)
          /\ Len(IndexOf(d).entries) >= 2
          /\ IndexOf(d).entries[1][2] > IndexOf(d).entries[2][2]
          /\ \E i, j \in 1..RowCount : decoded[i][d] = 0 /\ decoded[j][d] = 1

\* C9: whenever the table given to formatTable is marked truncated, the
\* rendered text ends with the notice of how many rows are shown out of the
\* total; also for the table decoded from a non-empty value array with limit 0.
C9_NoticeWhenTruncated ==
    (Rendered /\ parsed.truncated) =>
        /\ Len(lines) >= 2
        /\ lines[Len(lines)] = TruncationNotice(parsed)
        /\ formatted = Join(lines, "\n")

Absent(val) == val = Null \/ val = Undefined

\* C10: with zero rows the text is the header block and the no-data notice,
\* without header line, separator line or data line; with rows it has one
\* header line, one separator line and one line per row, in row order, every
\* absent value written "-".
C10_TableShape ==
    Rendered =>
        /\ formatted = Join(lines, "\n")
        /\ SubSeq(lines, 1, 4) = HeaderBlock(parsed)
        /\ IF RowCount = 0
           THEN lines = HeaderBlock(parsed) \o <<NoDataNotice>>
           ELSE /\ lines[5] = TableLine(parsed.columns)
                /\ lines[6] = TableLine([j \in 1..Len(parsed.columns) |-> "---"])
                /\ \A i \in 1..RowCount :
                      lines[6 + i] =
                          TableLine([j \in 1..Len(parsed.columns) |->
                              LET val == GetKey(parsed.rows[i], parsed.columns[j])
                              IN  IF Absent(val) THEN "-" ELSE CellText(val)])
                /\ \/ Len(lines) = 6 + RowCount
                   \/ /\ Len(lines) = 8 + RowCount
                      /\ lines[7 + RowCount] = ""
                      /\ lines[8 + RowCount] = TruncationNotice(parsed)

\* A rendered table of several rows, one of them with a null value.
C10_Witness ==
    /\ Rendered
    /\ RowCount >= 2
    /\ \E i \in 1..RowCount : parsed.rows[i][ValueColumn] = Null
    /\ \E i \in 1..RowCount : parsed.rows[i][ValueColumn].t = "number"

\* The category-label mapping the response gives dimension d
LabelMapOf(d) == data.dimension[data.id[d]].category.label

\* C11: the display label of a resolved code is the entry of the
\* category-label mapping for that code whenever there is one, whatever
\* string it is, and the raw code only when the mapping has no entry for it.
C11_LabelWheneverPresent ==
    Decoded =>
        \A d \in 1..DimCount : \A k \in 1..Len(dimensions[d].categories) :
            LET cat == dimensions[d].categories[k]
            IN  IF cat.code \in DOMAIN LabelMapOf(d)
                THEN cat.label = LabelMapOf(d)[cat.code]
                ELSE cat.label = cat.code

\* C11 as amended: the display label is the entry of the mapping when there
\* is one and it is not the empty string; it is the raw code when the mapping
\* has no entry for the code or the entry is the empty string.
C11_LabelWhenNonEmpty ==
    Decoded =>
        \A d \in 1..DimCount : \A k \in 1..Len(dimensions[d].categories) :
            LET cat == dimensions[d].categories[k]
            IN  IF cat.code \in DOMAIN LabelMapOf(d) /\ LabelMapOf(d)[cat.code] # ""
                THEN cat.label = LabelMapOf(d)[cat.code]
                ELSE cat.label = cat.code

\* One dimension with a category whose label entry is the empty string,
\* resolved to its code and shown in a row, next to a category with a label.
C11_Witness ==
    /\ Decoded
    /\ \E d \in 1..DimCount :
          \E k, m \in 1..Len(dimensions[d].categories) :
              LET cat == dimensions[d].categories[k]
                  other == dimensions[d].categories[m]
              IN  /\ cat.code \in DOMAIN LabelMapOf(d)
                  /\ LabelMapOf(d)[cat.code] = ""
                  /\ cat.label = cat.code
                  /\ other.code \in DOMAIN LabelMapOf(d)
                  /\ other.label = LabelOf(other.code)
                  /\ \E i \in 1..RowCount :
                        parsed.rows[i][dimensions[d].label] = Str(cat.code)

\* C13: truncated is true exactly when fewer rows are returned than exist,
\* truncated = (rows.length < totalRows), for every response and every limit,
\* zero and negative limits included.
C13_TruncatedIffRowsMissing ==
    Decoded => (parsed.truncated <=> RowCount < parsed.totalRows)

\* The fetch of queryTable failed or came back with a status outside 2xx
FetchFailed ==
    /\ reply # NotYet
    /\ \/ reply.kind = "rejected"
       \/ reply.status < 200
       \/ reply.status > 299

\* The message of the error queryTable throws for the reply
FailureMessage ==
    IF reply.kind = "rejected" THEN reply.message
    ELSE "SSB API error (" \o ToString(reply.status) \o "): " \o reply.text

HandlerSteps == <<"queryTable", "parseJsonStat2", "formatTable">>

Returned == pc = "done"

Flagged == "isError" \in DOMAIN result

\* C12: the ssb_query handler runs fetch, decode, render in this order; when
\* the fetch fails or the status is not 2xx, parseJsonStat2 and formatTable
\* are never invoked and the handler returns a result with isError = true
\* that carries the error message; a result without isError is returned only
\* after decode and render both completed.
C12_FetchDecodeRender ==
    /\ calls = SubSeq(HandlerSteps, 1, Len(calls))
    /\ FetchFailed =>
          /\ Returned
          /\ calls = <<"queryTable">>
          /\ parsed = NotYet /\ lines = <<>> /\ formatted = ""
          /\ Flagged /\ result.isError = TRUE
          /\ result.content = <<[type |-> "text", text |-> "Feil: " \o FailureMessage]>>
    /\ (Returned /\ ~Flagged) =>
          /\ calls = HandlerSteps
          /\ ~FetchFailed
          /\ parsed = parseJsonStat2(data, maxRows)
          /\ formatted = Join(lines, "\n") /\ Len(lines) >= 5
          /\ result.content = <<[type |-> "text", text |-> formatted]>>

\* The handler has returned after a reply with a status that is not 2xx.
C12_Witness ==
    /\ Returned
    /\ FetchFailed
    /\ reply.kind = "response"
    /\ Flagged

====
